---- MODULE Spec2Model ----
(***************************************************************************)
(* Model of the room-planter request handler (src/src/app/page.tsx):       *)
(* the POST orchestrator with its helpers createMask, convertToSquarePNG   *)
(* and fetchImageAsBase64, the temporary files it stages in os.tmpdir(),   *)
(* and the error mapping of its catch block.                               *)
(*                                                                         *)
(* Three specifications share the definitions below:                       *)
(*   Spec      NumReqs concurrent POST requests on one Node event loop;    *)
(*             one action per synchronous segment between two awaits.      *)
(*   SpecSeq   one POST request with the full set of outcomes of the       *)
(*             request body, the edit call and the result fetch.           *)
(*   SpecGeom  the pure raster helpers applied to all small dimensions.    *)
(***************************************************************************)
EXTENDS Integers, FiniteSets, Sequences, TLC

\* ------------------------------------------------------------------ bounds
NumReqs == 2          \* concurrent requests of Spec
MaxClock == 1         \* Date.now() ranges over 0..MaxClock
MaxDim == 6           \* widths and heights of SpecGeom range over 1..MaxDim

\* --------------------------------------------------------------- constants
T == 1024             \* edge of the normalized image and of the mask
MinBase64Len == 100   \* base64Data.length < 100 is rejected
BillingStatus == 402
DefaultStatus == 500
OkStatus == 200

Reqs == 1..NumReqs
None == "none"
Only(s) == CHOOSE x \in s : TRUE

Min(a, b) == IF a <= b THEN a ELSE b
Max(a, b) == IF a >= b THEN a ELSE b

VARIABLES
    \* The per-request variables are functions on Reqs; a value that may be
    \* absent is kept as a set of at most one element.
    clock,         \* the reading of Date.now()
    fs,            \* os.tmpdir(): path -> bytes of the file, for the files that exist
    pc,            \* per request: the await the request is suspended at
    tempFilePath,  \* per request
    maskFilePath,  \* per request
    body,          \* per request: what req.json() yields
    imageBuffer,   \* per request: the result of convertToSquarePNG
    sent,          \* per request: what the two read streams delivered to the edit call
    editResult,    \* per request: how openai.images.edit settled
    fetched,       \* per request: how fetch(imageUrl) settled
    thrown,        \* per request: the value the catch block received
    response,      \* per request: the NextResponse returned
    cleanup,       \* per request: the runs of the finally block, in order
    calls,         \* per request: how often the edit call and the fetch were invoked
    mask,          \* SpecGeom: the canvas of the last createMask call
    square,        \* SpecGeom: the canvas of the last convertToSquarePNG call
    \* The page component (Home) and its running addPlants call.
    roomImage,     \* useState: the uploaded image as a data URL, {} for null
    imageType,     \* useState: the MIME type of the uploaded file
    isGenerating,  \* useState
    generatedImage,\* useState: the result shown, {} for null
    reading,       \* the data URLs of the files whose load has not finished
    toast,         \* the message of the last showError call, {} for none
    addPlantsPc,   \* the await the addPlants call is suspended at
    httpResponse   \* the Response the fetch of the addPlants call resolved with

serverVars == <<clock, fs, pc, tempFilePath, maskFilePath, body, imageBuffer, sent,
                editResult, fetched, thrown, response, cleanup, calls, mask, square>>

clientVars == <<roomImage, imageType, isGenerating, generatedImage, reading, toast,
                addPlantsPc, httpResponse>>

vars == <<serverVars, clientVars>>

\* ================================================================ rasters
\* Lengths along y are counted in tenths of a pixel row, which makes
\* height * 0.7 and height * 0.3 exact: row y spans [10y, 10y + 10).
Tenth == 10
BandStart == 7        \* fillRect(0, height * 0.7, ...)
BandHeight == 3       \* fillRect(..., width, height * 0.3)

\* The part of pixel row y, in tenths, that the rectangle
\* fillRect(0, height * 0.7, width, height * 0.3) covers.  The rectangle spans
\* every column, so all pixels of a row get the same coverage; the canvas
\* antialiases a partly covered pixel to white with that fraction as alpha.
RowCoverage(y, height) ==
    LET top == BandStart * height
        bottom == BandStart * height + BandHeight * height
    IN Max(0, Min(Tenth * y + Tenth, bottom) - Max(Tenth * y, top))

\* createMask up to canvas.toBuffer: a transparent width x height canvas
\* (alpha 0 after clearRect) with the white rectangle painted on it.
\* alpha[x, y] is the opacity of pixel (x, y) in tenths, 0 = transparent.
createMask(width, height) ==
    [width |-> width, height |-> height, content |-> "mask",
     alpha |-> [p \in (0..(width - 1)) \X (0..(height - 1)) |->
                   RowCoverage(p[2], height)]]

\* Images a request can carry: undecodable data, or a raster of some size.
Undecodable == [decodable |-> FALSE]
Raster(id, w, h) == [decodable |-> TRUE, id |-> id, width |-> w, height |-> h]

\* convertToSquarePNG after loadImage succeeded, up to canvas.toBuffer.
\* x and y are halves of integers: the record keeps them doubled (x2 = 2x).
cropSizeMax(img) == Max(img.width, img.height)

cropSize(img) == Min(img.width, img.height)

convertToSquarePNG(img) ==
    LET size == cropSize(img)
    IN [width |-> T, height |-> T, content |-> img.id, background |-> "white",
        sx2 |-> img.width - size, sy2 |-> img.height - size,
        sw |-> size, sh |-> size,
        dx |-> 0, dy |-> 0, dw |-> T, dh |-> T,
        srcWidth |-> img.width, srcHeight |-> img.height]

\* canvas.toBuffer('image/png'): the PNG file of a canvas keeps its size
\* and its picture.
toBuffer(canvas) ==
    [format |-> "image/png", width |-> canvas.width, height |-> canvas.height,
     content |-> canvas.content]

\* ================================================================= errors
\* A thrown value: an Error object (with the optional code and status fields
\* the catch block reads, kept as sets of at most one element) or a value
\* that is no Error.
Err(name, message, code, status) ==
    [isError |-> TRUE, name |-> name, message |-> message,
     code |-> code, status |-> status]
NonError(value) == [isError |-> FALSE, value |-> value]

BillingCode == "billing_hard_limit_reached"
BillingMessage == "OpenAI API billing limit reached. Please try again later."
GenericMessage == "Failed to edit image"

JsonError == Err("SyntaxError", "Unexpected end of JSON input", {}, {})
NoImageError ==
    Err("TypeError", "Cannot read properties of undefined (reading 'length')", {}, {})
DecodeError == Err("Error", "Unsupported image type", {}, {})
WriteError == Err("Error", "ENOSPC: no space left on device, write", {"ENOSPC"}, {})
StreamError == Err("Error", "ENOENT: no such file or directory, open", {"ENOENT"}, {})
NoUrlError == Err("Error", "No image URL received", {}, {})
FetchTransportError == Err("TypeError", "fetch failed", {}, {})
FetchNotOkError(status, statusText) ==
    Err("Error", "Failed to fetch image: " \o ToString(status) \o " " \o statusText,
        {}, {})
EmptyImageError == Err("Error", "Generated image is empty", {}, {})
InvalidFormatError == Err("Error", "Invalid image format received", {}, {})
CorruptedError == Err("Error", "Invalid or corrupted image data received", {}, {})

\* NextResponse.json(body, { status }).
Json(jsonBody, status) == [body |-> jsonBody, status |-> status]

\* err.status ?? 500
StatusOrDefaultAlways500(status) == DefaultStatus

StatusOrDefault(status) ==
    IF status = {} THEN DefaultStatus ELSE CHOOSE s \in status : TRUE

\* err.code === "billing_hard_limit_reached"
IsBillingNever(error) == FALSE

IsBilling(error) == BillingCode \in error.code

\* The catch block of POST.
MapErrorAsSuccess(error) ==
    IF error.isError /\ error.code = {} /\ error.status = {}
    THEN Json([imageUrl |-> error.message], OkStatus)
    ELSE IF error.isError
         THEN IF IsBilling(error)
              THEN Json([error |-> BillingMessage], BillingStatus)
              ELSE Json([error |-> error.message], StatusOrDefault(error.status))
         ELSE Json([error |-> GenericMessage], DefaultStatus)

MapError(error) ==
    IF error.isError
    THEN IF IsBilling(error)
         THEN Json([error |-> BillingMessage], BillingStatus)
         ELSE Json([error |-> error.message], StatusOrDefault(error.status))
    ELSE Json([error |-> GenericMessage], DefaultStatus)

\* ============================================================ result fetch
\* buffer.toString('base64'): four characters for every started group of
\* three bytes.
Base64(payload) == [of |-> payload, length |-> 4 * ((payload.len + 2) \div 3)]

DataUrlPrefix == "data:image/png;base64,"
DataUrl(base64) == [prefix |-> DataUrlPrefix, data |-> base64]

Returned(value) == [ok |-> TRUE, value |-> value]
Raised(error) == [ok |-> FALSE, error |-> error]

\* fetchImageAsBase64, given how fetch(url) and arrayBuffer() settled.
fetchImageAsBase64(outcome) ==
    IF outcome.settled = "rejected" THEN Raised(outcome.error)
    ELSE IF ~outcome.ok THEN Raised(FetchNotOkError(outcome.status, outcome.statusText))
    ELSE LET base64 == Base64(outcome.payload)
         IN IF base64.length = 0 THEN Raised(EmptyImageError)
            ELSE Returned(DataUrl(base64))

\* The validation of base64Image in POST.
ValidateNoMinimum(base64Image) ==
    IF base64Image.prefix # DataUrlPrefix THEN Raised(InvalidFormatError)
    ELSE Returned(base64Image)

Validate(base64Image) ==
    IF base64Image.prefix # DataUrlPrefix THEN Raised(InvalidFormatError)
    ELSE LET base64Data == base64Image.data
         IN IF base64Data.length = 0 \/ base64Data.length < MinBase64Len
            THEN Raised(CorruptedError)
            ELSE Returned(base64Image)

\* ============================================================= file system
Path(prefix, t) == [prefix |-> prefix, t |-> t]
Exists(files, p) == p \in DOMAIN files
Write(files, p, bytes) ==
    [q \in DOMAIN files \cup {p} |-> IF q = p THEN bytes ELSE files[q]]
Unlink(files, p) == [q \in DOMAIN files \ {p} |-> files[q]]
NoFiles == [q \in {} |-> None]

\* The finally block of POST on the files `files`; `fault` names the
\* unlinkSync call that throws ("room", "mask") or "none".  An unlinkSync
\* that throws leaves its file in place and ends the inner try block.
\* The result records the existsSync calls made (checks), the unlinkSync
\* calls made (unlinks) and which of the two files existed at the start.
CleanupFaults(files, temp, maskp) ==
    {"none"} \cup (IF Exists(files, temp) THEN {"room"} ELSE {})
             \cup (IF Exists(files, maskp) THEN {"mask"} ELSE {})

CleanupUnguarded(files, temp, maskp, fault) ==
    LET existed == {p \in {temp, maskp} : Exists(files, p)}
    IN IF ~Exists(files, temp) \/ fault = "room"
       THEN [fs |-> files, failed |-> TRUE, existed |-> existed,
             unlinks |-> <<temp>>, checks |-> <<>>]
       ELSE IF ~Exists(files, maskp) \/ fault = "mask"
            THEN [fs |-> Unlink(files, temp), failed |-> TRUE, existed |-> existed,
                  unlinks |-> <<temp, maskp>>, checks |-> <<>>]
            ELSE [fs |-> Unlink(Unlink(files, temp), maskp), failed |-> FALSE,
                  existed |-> existed, unlinks |-> <<temp, maskp>>, checks |-> <<>>]

Cleanup(files, temp, maskp, fault) ==
    LET existed == {p \in {temp, maskp} : Exists(files, p)}
    IN IF Exists(files, temp) /\ fault = "room"
       THEN [fs |-> files, failed |-> TRUE, existed |-> existed,
             unlinks |-> <<temp>>, checks |-> <<temp>>]
       ELSE LET f1 == IF Exists(files, temp) THEN Unlink(files, temp) ELSE files
                u1 == IF Exists(files, temp) THEN <<temp>> ELSE <<>>
            IN IF Exists(f1, maskp) /\ fault = "mask"
               THEN [fs |-> f1, failed |-> TRUE, existed |-> existed,
                     unlinks |-> u1 \o <<maskp>>, checks |-> <<temp, maskp>>]
               ELSE [fs |-> IF Exists(f1, maskp) THEN Unlink(f1, maskp) ELSE f1,
                     failed |-> FALSE, existed |-> existed,
                     unlinks |-> u1 \o (IF Exists(f1, maskp) THEN <<maskp>> ELSE <<>>),
                     checks |-> <<temp, maskp>>]

\* ================================================================== inputs
BadJson == [parses |-> FALSE]
NoImage == [parses |-> TRUE, hasImage |-> FALSE]
WithImage(img) == [parses |-> TRUE, hasImage |-> TRUE, image |-> img]

Landscape == Raster("a", 4, 3)
Portrait == Raster("b", 3, 4)

Bodies == {BadJson, NoImage, WithImage(Undecodable), WithImage(Landscape),
           WithImage(Portrait)}
ConcBodies == {BadJson, WithImage(Undecodable), WithImage(Landscape)}

WriteFaults == {"none", "room", "mask"}

Resolved(url) == [settled |-> "resolved", url |-> url]
Rejected(error) == [settled |-> "rejected", error |-> error]
ResultUrl == "https://edit.example/result.png"

BillingErrors ==
    {Err("APIError", "Billing hard limit has been reached", {BillingCode}, st) :
        st \in {{}, {400}, {429}}}
ServiceErrors ==
    {Err("APIError", "Rate limit reached", {"rate_limit_exceeded"}, {429}),
     Err("APIError", "The server had an error", {}, {503}),
     Err("APIError", "Request failed", {"unknown"}, {}),
     Err("APIConnectionError", "Connection error.", {}, {})}
EditErrors == BillingErrors \cup ServiceErrors \cup {NonError("aborted")}

EditOutcomes == {Resolved({ResultUrl}), Resolved({})} \cup {Rejected(e) : e \in EditErrors}
ConcEditOutcomes ==
    {Resolved({ResultUrl}),
     Rejected(Err("APIError", "Rate limit reached", {"rate_limit_exceeded"}, {429}))}

Bytes(n) == [len |-> n, png |-> FALSE]
Png(n) == [len |-> n, png |-> TRUE]
MinimalPng == Png(67)
Payloads == {Bytes(0), Bytes(1), MinimalPng, Bytes(72), Bytes(73), Png(74),
             Bytes(75), Png(76), Bytes(100), Png(101)}

FetchOk(payload) == [settled |-> "resolved", ok |-> TRUE, payload |-> payload]
FetchNotOk(status, statusText) ==
    [settled |-> "resolved", ok |-> FALSE, status |-> status, statusText |-> statusText]
FetchOutcomes ==
    {Rejected(FetchTransportError), FetchNotOk(404, "Not Found"),
     FetchNotOk(403, "Forbidden")} \cup {FetchOk(p) : p \in Payloads}
ConcFetchOutcomes == {FetchOk(Png(101)), FetchNotOk(403, "Forbidden")}

\* ================================================================= actions
NoPath == Path("none", 0)

Init ==
    /\ clock = 0
    /\ fs = NoFiles
    /\ pc = [r \in Reqs |-> "idle"]
    /\ tempFilePath = [r \in Reqs |-> NoPath]
    /\ maskFilePath = [r \in Reqs |-> NoPath]
    /\ body = [r \in Reqs |-> {}]
    /\ imageBuffer = [r \in Reqs |-> {}]
    /\ sent = [r \in Reqs |-> {}]
    /\ editResult = [r \in Reqs |-> {}]
    /\ fetched = [r \in Reqs |-> {}]
    /\ thrown = [r \in Reqs |-> {}]
    /\ response = [r \in Reqs |-> {}]
    /\ cleanup = [r \in Reqs |-> <<>>]
    /\ calls = [r \in Reqs |-> [edit |-> 0, fetch |-> 0]]
    /\ mask = {}
    /\ square = {}
    /\ roomImage = {}
    /\ imageType = ""
    /\ isGenerating = FALSE
    /\ generatedImage = {}
    /\ reading = {}
    /\ toast = {}
    /\ addPlantsPc = "idle"
    /\ httpResponse = {}

\* Time passes.
Tick ==
    /\ clock < MaxClock
    /\ clock' = clock + 1
    /\ UNCHANGED <<fs, pc, tempFilePath, maskFilePath, body, imageBuffer, sent,
                   editResult, fetched, thrown, response, cleanup, calls, mask,
                   square>>
    /\ UNCHANGED clientVars

\* POST up to `await req.json()`: the two paths are built from two readings
\* of Date.now(), between which the clock may advance.
Start(r, b) ==
    /\ pc[r] = "idle"
    /\ \E t2 \in {clock, clock + 1} \cap (0..MaxClock) :
          /\ tempFilePath' = [tempFilePath EXCEPT ![r] = Path("room", clock)]
          /\ maskFilePath' = [maskFilePath EXCEPT ![r] = Path("mask", t2)]
          /\ clock' = t2
    /\ body' = [body EXCEPT ![r] = {b}]
    /\ pc' = [pc EXCEPT ![r] = "json"]
    /\ UNCHANGED <<fs, imageBuffer, sent, editResult, fetched, thrown, response,
                   cleanup, calls, mask, square>>
    /\ UNCHANGED clientVars

FinishSkipsCleanupOnThrow(r, files, resp, caught) ==
    IF caught = {}
    THEN \E fault \in CleanupFaults(files, tempFilePath[r], maskFilePath[r]) :
            LET c == Cleanup(files, tempFilePath[r], maskFilePath[r], fault)
            IN /\ fs' = c.fs
               /\ cleanup' = [cleanup EXCEPT ![r] =
                      Append(@, [failed |-> c.failed, unlinks |-> c.unlinks,
                                 checks |-> c.checks, existed |-> c.existed])]
               /\ response' = [response EXCEPT ![r] = {resp}]
               /\ thrown' = [thrown EXCEPT ![r] = caught]
               /\ pc' = [pc EXCEPT ![r] = "done"]
    ELSE /\ fs' = files
         /\ cleanup' = cleanup
         /\ response' = [response EXCEPT ![r] = {resp}]
         /\ thrown' = [thrown EXCEPT ![r] = caught]
         /\ pc' = [pc EXCEPT ![r] = "done"]

\* The end of POST: the response is fixed by the return statement of the try
\* block or of the catch block, then the finally block runs on `files`.
Finish(r, files, resp, caught) ==
    \E fault \in CleanupFaults(files, tempFilePath[r], maskFilePath[r]) :
        LET c == Cleanup(files, tempFilePath[r], maskFilePath[r], fault)
        IN /\ fs' = c.fs
           /\ cleanup' = [cleanup EXCEPT ![r] =
                  Append(@, [failed |-> c.failed, unlinks |-> c.unlinks,
                             checks |-> c.checks, existed |-> c.existed])]
           /\ response' = [response EXCEPT ![r] = {resp}]
           /\ thrown' = [thrown EXCEPT ![r] = caught]
           /\ pc' = [pc EXCEPT ![r] = "done"]

Throw(r, files, error) == Finish(r, files, MapError(error), {error})
Return(r, files, resp) == Finish(r, files, resp, {})

\* req.json() settled; POST runs up to `await loadImage(imageData)`.
JsonSettled(r) ==
    /\ pc[r] = "json"
    /\ LET b == Only(body[r])
       IN IF ~b.parses
          THEN Throw(r, fs, JsonError)
          ELSE IF ~b.hasImage
               THEN Throw(r, fs, NoImageError)
               ELSE /\ pc' = [pc EXCEPT ![r] = "loadImage"]
                    /\ UNCHANGED <<fs, thrown, response, cleanup>>
    /\ UNCHANGED <<clock, tempFilePath, maskFilePath, body, imageBuffer, sent,
                   editResult, fetched, calls, mask, square>>
    /\ UNCHANGED clientVars

\* loadImage settled; convertToSquarePNG returns or rethrows, and POST calls
\* createMask and awaits it.
ImageLoaded(r) ==
    /\ pc[r] = "loadImage"
    /\ LET img == Only(body[r]).image
       IN IF ~img.decodable
          THEN /\ Throw(r, fs, DecodeError)
               /\ UNCHANGED imageBuffer
          ELSE /\ imageBuffer' = [imageBuffer EXCEPT ![r] =
                      {toBuffer(convertToSquarePNG(img))}]
               /\ pc' = [pc EXCEPT ![r] = "createMask"]
               /\ UNCHANGED <<fs, thrown, response, cleanup>>
    /\ UNCHANGED <<clock, tempFilePath, maskFilePath, body, sent, editResult,
                   fetched, calls, mask, square>>
    /\ UNCHANGED clientVars

\* createMask(1024, 1024) settled; POST writes both files, opens the two read
\* streams and calls openai.images.edit.  `fault` names the writeFileSync
\* call that throws.
Stage(r, fault) ==
    /\ pc[r] = "createMask"
    /\ LET maskBuffer == toBuffer(createMask(T, T))
           withRoom == Write(fs, tempFilePath[r], Only(imageBuffer[r]))
           withBoth == Write(withRoom, maskFilePath[r], maskBuffer)
       IN CASE fault = "room" -> Throw(r, fs, WriteError) /\ UNCHANGED calls
            [] fault = "mask" -> Throw(r, withRoom, WriteError) /\ UNCHANGED calls
            [] OTHER -> /\ fs' = withBoth
                        /\ calls' = [calls EXCEPT ![r].edit = @ + 1]
                        /\ pc' = [pc EXCEPT ![r] = "streams"]
                        /\ UNCHANGED <<thrown, response, cleanup>>
    /\ UNCHANGED <<clock, tempFilePath, maskFilePath, body, imageBuffer, sent,
                   editResult, fetched, mask, square>>
    /\ UNCHANGED clientVars

\* The read streams open their files and deliver them to the edit call; a
\* missing file makes the call reject.
StreamsRead(r) ==
    /\ pc[r] = "streams"
    /\ IF Exists(fs, tempFilePath[r]) /\ Exists(fs, maskFilePath[r])
       THEN /\ sent' = [sent EXCEPT ![r] =
                   {[image |-> fs[tempFilePath[r]], mask |-> fs[maskFilePath[r]]]}]
            /\ pc' = [pc EXCEPT ![r] = "edit"]
            /\ UNCHANGED <<fs, thrown, response, cleanup>>
       ELSE /\ Throw(r, fs, StreamError)
            /\ UNCHANGED sent
    /\ UNCHANGED <<clock, tempFilePath, maskFilePath, body, imageBuffer,
                   editResult, fetched, calls, mask, square>>
    /\ UNCHANGED clientVars

EditSettledFetchesAnyway(r, outcome) ==
    /\ pc[r] = "edit"
    /\ editResult' = [editResult EXCEPT ![r] = {outcome}]
    /\ IF outcome.settled = "rejected"
       THEN Throw(r, fs, outcome.error) /\ UNCHANGED calls
       ELSE /\ pc' = [pc EXCEPT ![r] = "fetch"]
            /\ calls' = [calls EXCEPT ![r].fetch = @ + 1]
            /\ UNCHANGED <<fs, thrown, response, cleanup>>
    /\ UNCHANGED <<clock, tempFilePath, maskFilePath, body, imageBuffer, sent,
                   fetched, mask, square>>
    /\ UNCHANGED clientVars

EditSettledReleasesAtOnce(r, outcome) ==
    /\ pc[r] = "edit"
    /\ editResult' = [editResult EXCEPT ![r] = {outcome}]
    /\ IF outcome.settled = "rejected"
       THEN Throw(r, fs, outcome.error) /\ UNCHANGED calls
       ELSE IF outcome.url = {}
            THEN Throw(r, fs, NoUrlError) /\ UNCHANGED calls
            ELSE /\ pc' = [pc EXCEPT ![r] = "fetch"]
                 /\ calls' = [calls EXCEPT ![r].fetch = @ + 1]
                 /\ fs' = Unlink(Unlink(fs, tempFilePath[r]), maskFilePath[r])
                 /\ UNCHANGED <<thrown, response, cleanup>>
    /\ UNCHANGED <<clock, tempFilePath, maskFilePath, body, imageBuffer, sent,
                   fetched, mask, square>>
    /\ UNCHANGED clientVars

EditSettledRetries(r, outcome) ==
    /\ pc[r] = "edit"
    /\ editResult' = [editResult EXCEPT ![r] = {outcome}]
    /\ IF outcome.settled = "rejected"
       THEN IF calls[r].edit < 2
            THEN /\ calls' = [calls EXCEPT ![r].edit = @ + 1]
                 /\ pc' = [pc EXCEPT ![r] = "streams"]
                 /\ UNCHANGED <<fs, thrown, response, cleanup>>
            ELSE Throw(r, fs, outcome.error) /\ UNCHANGED calls
       ELSE IF outcome.url = {}
            THEN Throw(r, fs, NoUrlError) /\ UNCHANGED calls
            ELSE /\ pc' = [pc EXCEPT ![r] = "fetch"]
                 /\ calls' = [calls EXCEPT ![r].fetch = @ + 1]
                 /\ UNCHANGED <<fs, thrown, response, cleanup>>
    /\ UNCHANGED <<clock, tempFilePath, maskFilePath, body, imageBuffer, sent,
                   fetched, mask, square>>
    /\ UNCHANGED clientVars

\* openai.images.edit settled; POST runs up to `await fetch(url)` inside
\* fetchImageAsBase64.
EditSettled(r, outcome) ==
    /\ pc[r] = "edit"
    /\ editResult' = [editResult EXCEPT ![r] = {outcome}]
    /\ IF outcome.settled = "rejected"
       THEN Throw(r, fs, outcome.error) /\ UNCHANGED calls
       ELSE IF outcome.url = {}
            THEN Throw(r, fs, NoUrlError) /\ UNCHANGED calls
            ELSE /\ pc' = [pc EXCEPT ![r] = "fetch"]
                 /\ calls' = [calls EXCEPT ![r].fetch = @ + 1]
                 /\ UNCHANGED <<fs, thrown, response, cleanup>>
    /\ UNCHANGED <<clock, tempFilePath, maskFilePath, body, imageBuffer, sent,
                   fetched, mask, square>>
    /\ UNCHANGED clientVars

\* fetch and arrayBuffer settled (they touch nothing shared, so they are one
\* step); fetchImageAsBase64 returns or throws, POST validates and returns.
FetchSettled(r, outcome) ==
    /\ pc[r] = "fetch"
    /\ fetched' = [fetched EXCEPT ![r] = {outcome}]
    /\ LET base64Image == fetchImageAsBase64(outcome)
       IN IF ~base64Image.ok
          THEN Throw(r, fs, base64Image.error)
          ELSE LET valid == Validate(base64Image.value)
               IN IF ~valid.ok
                  THEN Throw(r, fs, valid.error)
                  ELSE Return(r, fs, Json([imageUrl |-> valid.value], OkStatus))
    /\ UNCHANGED <<clock, tempFilePath, maskFilePath, body, imageBuffer, sent,
                   editResult, calls, mask, square>>
    /\ UNCHANGED clientVars

\* ---------------------------------------------------------- specifications
Next ==
    \/ Tick
    \/ \E r \in Reqs, b \in ConcBodies : Start(r, b)
    \/ \E r \in Reqs : JsonSettled(r)
    \/ \E r \in Reqs : ImageLoaded(r)
    \/ \E r \in Reqs, fault \in WriteFaults : Stage(r, fault)
    \/ \E r \in Reqs : StreamsRead(r)
    \/ \E r \in Reqs, o \in ConcEditOutcomes : EditSettled(r, o)
    \/ \E r \in Reqs, o \in ConcFetchOutcomes : FetchSettled(r, o)

Spec == Init /\ [][Next]_vars

NextSeq ==
    \/ Tick
    \/ \E b \in Bodies : Start(1, b)
    \/ JsonSettled(1)
    \/ ImageLoaded(1)
    \/ \E fault \in WriteFaults : Stage(1, fault)
    \/ StreamsRead(1)
    \/ \E o \in EditOutcomes : EditSettled(1, o)
    \/ \E o \in FetchOutcomes : FetchSettled(1, o)

SpecSeq == Init /\ [][NextSeq]_vars

Dims == 1..MaxDim

CallCreateMask(width, height) ==
    /\ mask' = {createMask(width, height)}
    /\ UNCHANGED <<clock, fs, pc, tempFilePath, maskFilePath, body, imageBuffer,
                   sent, editResult, fetched, thrown, response, cleanup, calls,
                   square>>
    /\ UNCHANGED clientVars

CallConvertToSquarePNG(img) ==
    /\ square' = {convertToSquarePNG(img)}
    /\ UNCHANGED <<clock, fs, pc, tempFilePath, maskFilePath, body, imageBuffer,
                   sent, editResult, fetched, thrown, response, cleanup, calls,
                   mask>>
    /\ UNCHANGED clientVars

NextGeom ==
    \/ \E w \in Dims, h \in Dims : CallCreateMask(w, h)
    \/ \E w \in Dims, h \in Dims : CallConvertToSquarePNG(Raster("g", w, h))

SpecGeom == Init /\ [][NextGeom]_vars

\* ------------------------------------------------------- the page component
MaxFileSize == 4 * 1024 * 1024

File(type, size, dataUrl) == [type |-> type, size |-> size, dataUrl |-> dataUrl]
Files ==
    {File("image/png", 1024, "data:image/png;base64,A"),
     File("image/jpeg", MaxFileSize, "data:image/jpeg;base64,B"),
     File("image/png", MaxFileSize + 1, "data:image/png;base64,C"),
     File("image/gif", 1024, "data:image/gif;base64,D"),
     File("text/plain", 1024, "data:text/plain;base64,E")}

IsImageType(type) == type \in {"image/png", "image/jpeg", "image/jpg", "image/gif"}

\* What fetch("/api/generate-plant") can resolve with: the responses POST
\* gives, and responses of anything else that answers in its place.
HttpJson(resp) == [parses |-> TRUE, status |-> resp.status, body |-> resp.body]
HttpText(status) == [parses |-> FALSE, status |-> status, body |-> [text |-> "<html>"]]
HttpResponses ==
    {HttpJson(Json([imageUrl |-> DataUrl(Base64(p))], OkStatus)) : p \in {Png(76), Png(101)}}
        \cup {HttpJson(MapError(e)) :
                 e \in {Err("APIError", "Billing hard limit has been reached",
                            {BillingCode}, {400}),
                        Err("APIError", "Rate limit reached",
                            {"rate_limit_exceeded"}, {429}),
                        DecodeError}}
        \cup {HttpJson(Json([error |-> "Partial result"], OkStatus)),
              HttpJson(Json([message |-> "Bad Gateway"], 502)),
              HttpJson(Json([message |-> "ok"], OkStatus)),
              HttpText(504), HttpText(OkStatus)}

ClientFetchOutcomes ==
    {[settled |-> "resolved", response |-> resp] : resp \in HttpResponses}
        \cup {[settled |-> "rejected", error |-> Err("TypeError", "Failed to fetch", {}, {})]}

\* Response.ok
Ok(status) == status \in 200..299

Undefined == [undefined |-> TRUE]
\* data.imageUrl
ImageUrlOf(data) == IF "imageUrl" \in DOMAIN data THEN data.imageUrl ELSE Undefined

\* error instanceof Error ? error.message : "Failed to add plants"
ErrorMessage(error) == IF error.isError THEN error.message ELSE "Failed to add plants"

\* processFile: a rejected file is reported; an accepted one resets the
\* result and starts loading.
processFile(file) ==
    /\ IF ~IsImageType(file.type)
       THEN /\ toast' = {"Please upload an image file"}
            /\ UNCHANGED <<imageType, generatedImage, reading>>
       ELSE IF file.type \notin {"image/png", "image/jpeg", "image/jpg"}
            THEN /\ toast' = {"Please upload a PNG or JPG image"}
                 /\ UNCHANGED <<imageType, generatedImage, reading>>
            ELSE IF file.size > MaxFileSize
                 THEN /\ toast' = {"Image must be less than 4MB"}
                      /\ UNCHANGED <<imageType, generatedImage, reading>>
                 ELSE /\ imageType' = file.type
                      /\ generatedImage' = {}
                      /\ reading' = reading \cup {file.dataUrl}
                      /\ UNCHANGED toast
    /\ UNCHANGED <<roomImage, isGenerating, addPlantsPc, httpResponse>>
    /\ UNCHANGED serverVars

\* reader.onload followed by img.onload: the image becomes the room image.
imgOnload(result) ==
    /\ result \in reading
    /\ reading' = reading \ {result}
    /\ roomImage' = {result}
    /\ UNCHANGED <<imageType, isGenerating, generatedImage, toast, addPlantsPc,
                   httpResponse>>
    /\ UNCHANGED serverVars

\* reader.onerror
readerOnerror(result) ==
    /\ result \in reading
    /\ reading' = reading \ {result}
    /\ toast' = {"Failed to read image file"}
    /\ UNCHANGED <<roomImage, imageType, isGenerating, generatedImage, addPlantsPc,
                   httpResponse>>
    /\ UNCHANGED serverVars

\* The catch and finally blocks of addPlants.
addPlantsCatch(error) ==
    /\ toast' = {ErrorMessage(error)}
    /\ isGenerating' = FALSE
    /\ addPlantsPc' = "idle"
    /\ UNCHANGED generatedImage

\* A click on the button, which is disabled while isGenerating: addPlants up
\* to `await fetch(...)`.
addPlants(hasContext) ==
    /\ ~isGenerating
    /\ addPlantsPc = "idle"
    /\ IF roomImage = {}
       THEN /\ toast' = {"Please upload a room image first"}
            /\ UNCHANGED <<isGenerating, addPlantsPc, httpResponse>>
       ELSE IF ~hasContext
            THEN /\ toast' = {"Failed to get canvas context"}
                 /\ UNCHANGED <<isGenerating, addPlantsPc, httpResponse>>
            ELSE /\ isGenerating' = TRUE
                 /\ addPlantsPc' = "fetch"
                 /\ httpResponse' = {}
                 /\ UNCHANGED toast
    /\ UNCHANGED <<roomImage, imageType, generatedImage, reading>>
    /\ UNCHANGED serverVars

\* fetch settled; addPlants runs up to `await response.json()`.
addPlantsFetchSettled(outcome) ==
    /\ addPlantsPc = "fetch"
    /\ IF outcome.settled = "rejected"
       THEN addPlantsCatch(outcome.error) /\ UNCHANGED httpResponse
       ELSE /\ httpResponse' = {outcome.response}
            /\ addPlantsPc' = "json"
            /\ UNCHANGED <<isGenerating, generatedImage, toast>>
    /\ UNCHANGED <<roomImage, imageType, reading>>
    /\ UNCHANGED serverVars

addPlantsJsonSettledIgnoresOk ==
    /\ addPlantsPc = "json"
    /\ LET resp == Only(httpResponse)
       IN IF ~resp.parses
          THEN addPlantsCatch(Err("SyntaxError", "Unexpected token < in JSON", {}, {}))
          ELSE IF "error" \in DOMAIN resp.body
               THEN addPlantsCatch(Err("Error", resp.body.error, {}, {}))
               ELSE /\ generatedImage' = {ImageUrlOf(resp.body)}
                    /\ isGenerating' = FALSE
                    /\ addPlantsPc' = "idle"
                    /\ UNCHANGED toast
    /\ UNCHANGED <<roomImage, imageType, reading, httpResponse>>
    /\ UNCHANGED serverVars

\* response.json() settled; addPlants runs to its end.
addPlantsJsonSettled ==
    /\ addPlantsPc = "json"
    /\ LET resp == Only(httpResponse)
       IN IF ~resp.parses
          THEN addPlantsCatch(Err("SyntaxError", "Unexpected token < in JSON", {}, {}))
          ELSE IF ~Ok(resp.status) \/ "error" \in DOMAIN resp.body
               THEN addPlantsCatch(
                        Err("Error",
                            IF "error" \in DOMAIN resp.body
                            THEN resp.body.error
                            ELSE "Failed to generate plants", {}, {}))
               ELSE /\ generatedImage' = {ImageUrlOf(resp.body)}
                    /\ isGenerating' = FALSE
                    /\ addPlantsPc' = "idle"
                    /\ UNCHANGED toast
    /\ UNCHANGED <<roomImage, imageType, reading, httpResponse>>
    /\ UNCHANGED serverVars

NextClient ==
    \/ \E file \in Files : processFile(file)
    \/ \E result \in reading : imgOnload(result)
    \/ \E result \in reading : readerOnerror(result)
    \/ \E hasContext \in BOOLEAN : addPlants(hasContext)
    \/ \E o \in ClientFetchOutcomes : addPlantsFetchSettled(o)
    \/ addPlantsJsonSettled

\* A pending fetch and a pending response.json() settle.
SpecClient ==
    /\ Init
    /\ [][NextClient]_vars
    /\ WF_vars(\E o \in ClientFetchOutcomes : addPlantsFetchSettled(o))
    /\ WF_vars(addPlantsJsonSettled)

\* ================================================================== claims
Done(r) == pc[r] = "done"
Active(r) == pc[r] \notin {"idle", "done"}
IsFailure(resp) == DOMAIN resp.body = {"error"}
IsSuccess(resp) == DOMAIN resp.body = {"imageUrl"} /\ resp.status = OkStatus

\* C1: after a POST request has terminated, neither its staged room-image
\* file nor its staged mask file exists on the backing store.
C1_NoResidualArtifact ==
    \A r \in Reqs :
        Done(r) => /\ ~Exists(fs, tempFilePath[r])
                   /\ ~Exists(fs, maskFilePath[r])

\* C2: two concurrent POST requests never hold the same room-image path or
\* the same mask path.
C2_DistinctPaths ==
    \A r1 \in Reqs, r2 \in Reqs :
        (r1 # r2 /\ Active(r1) /\ Active(r2))
            => /\ tempFilePath[r1] # tempFilePath[r2]
               /\ maskFilePath[r1] # maskFilePath[r2]

\* C3: a failure that carries the code billing_hard_limit_reached is answered
\* with status 402 and the fixed try-again-later message, whatever status and
\* message the upstream error carries.
C3_BillingLimit ==
    \A r \in Reqs : \A e \in thrown[r] :
        (Done(r) /\ e.isError /\ "billing_hard_limit_reached" \in e.code)
            => response[r] =
                 {[body |-> [error |-> "OpenAI API billing limit reached. Please try again later."],
                   status |-> 402]}

C3_Witness ==
    \E r \in Reqs : \E e \in thrown[r] : \E resp \in response[r] :
        /\ Done(r) /\ e.isError /\ "billing_hard_limit_reached" \in e.code
        /\ e.status = {429} /\ e.message # resp.body.error
        /\ editResult[r] = {Rejected(e)}
        /\ resp.status = 402

\* C4: when the edit call fails with an error that is no billing-limit error,
\* the response status is the upstream status if the error carries one and
\* 500 if it carries none, and the response body carries the error's message
\* (a rejection value that is no Error object has neither: status 500).
C4_UpstreamStatus ==
    \A r \in Reqs : \A o \in editResult[r] :
        (Done(r) /\ o.settled = "rejected")
            => LET e == o.error
               IN \A resp \in response[r] :
                    /\ response[r] # {}
                    /\ (e.isError /\ "billing_hard_limit_reached" \notin e.code)
                         => /\ \A st \in e.status : resp.status = st
                            /\ e.status = {} => resp.status = 500
                            /\ resp.body = [error |-> e.message]
                    /\ ~e.isError => resp.status = 500 /\ IsFailure(resp)

C4_Witness ==
    \E r \in Reqs : \E o \in editResult[r] : \E resp \in response[r] :
        /\ Done(r) /\ o.settled = "rejected" /\ o.error.isError
        /\ o.error.status = {429} /\ resp.status = 429
        /\ resp.body = [error |-> "Rate limit reached"]

\* C5: a request that fails because the input image cannot be decoded, because
\* the edit service returned no result URL, because the result URL answered
\* with a non-OK response, or because the retrieved payload failed validation
\* ends with a failure response of status 500.
UndecodableInput(r) ==
    \E b \in body[r] : b.parses /\ b.hasImage /\ ~b.image.decodable
EmptyEditResult(r) ==
    \E o \in editResult[r] : o.settled = "resolved" /\ o.url = {}
FetchNotOkResult(r) ==
    \E o \in fetched[r] : o.settled = "resolved" /\ ~o.ok
ValidationFailed(r) ==
    /\ \E o \in fetched[r] : o.settled = "resolved" /\ o.ok
    /\ thrown[r] # {}

C5_GenericFailures ==
    \A r \in Reqs :
        (Done(r) /\ (UndecodableInput(r) \/ EmptyEditResult(r)
                        \/ FetchNotOkResult(r) \/ ValidationFailed(r)))
            => /\ response[r] # {}
               /\ \A resp \in response[r] : IsFailure(resp) /\ resp.status = 500

C5_Witness ==
    \E r \in Reqs : \E o \in fetched[r] : \E resp \in response[r] :
        /\ Done(r) /\ ValidationFailed(r) /\ o.payload = MinimalPng
        /\ IsFailure(resp) /\ resp.status = 500

\* C6: every request ends in exactly one of two outcomes, a success response
\* carrying imageUrl or a failure response carrying an error message and a
\* status code; a failure at any step ends in the failure response, and no
\* failure is turned into a success response.
AllStepsSucceeded(r) ==
    /\ \E b \in body[r] : b.parses /\ b.hasImage /\ b.image.decodable
    /\ sent[r] # {}
    /\ \E o \in editResult[r] : o.settled = "resolved" /\ o.url # {}
    /\ \E o \in fetched[r] : o.settled = "resolved" /\ o.ok

C6_StructuredOutcome ==
    \A r \in Reqs :
        /\ ~Done(r) => response[r] = {}
        /\ Done(r) =>
             /\ Cardinality(response[r]) = 1
             /\ \A resp \in response[r] :
                  /\ IsSuccess(resp) \/ (IsFailure(resp) /\ resp.status \in 400..599)
                  /\ ~(IsSuccess(resp) /\ IsFailure(resp))
                  /\ thrown[r] # {} => IsFailure(resp)
                  /\ ~AllStepsSucceeded(r) => IsFailure(resp)
                  /\ IsSuccess(resp) => thrown[r] = {} /\ AllStepsSucceeded(r)

C6_Witness ==
    \E r \in Reqs : \E e \in thrown[r] : \E resp \in response[r] :
        /\ Done(r) /\ e.isError /\ e.code = {} /\ e.status = {}
        /\ IsFailure(resp) /\ resp.status = 500

\* C7: a success response is emitted only for a retrieved payload that is
\* non-empty and above the minimum size (the code measures it on the base64
\* text, 100 characters, that is 73 decoded bytes); a zero-length payload and
\* a payload below the minimum make the request fail with a validation error.
EncodedLength(n) == 4 * ((n + 2) \div 3)

C7_MinimumPayload ==
    \A r \in Reqs : \A o \in fetched[r] :
        (Done(r) /\ o.settled = "resolved" /\ o.ok)
            => \A resp \in response[r] :
                 /\ IsSuccess(resp)
                      => o.payload.len > 0 /\ EncodedLength(o.payload.len) >= MinBase64Len
                 /\ (o.payload.len = 0 \/ EncodedLength(o.payload.len) < MinBase64Len)
                      => /\ IsFailure(resp)
                         /\ resp.body.error \in
                              {"Generated image is empty",
                               "Invalid or corrupted image data received"}

C7_Witness ==
    \E r \in Reqs : \E o \in fetched[r] : \E resp \in response[r] :
        /\ Done(r) /\ o.settled = "resolved" /\ o.ok
        /\ o.payload.len = 72
        /\ resp.body = [error |-> "Invalid or corrupted image data received"]

C7_WitnessSuccess ==
    \E r \in Reqs : \E o \in fetched[r] : \E resp \in response[r] :
        Done(r) /\ o.settled = "resolved" /\ o.ok /\ o.payload.len = 73 /\ IsSuccess(resp)

\* C8: a successfully retrieved well-formed minimal PNG (67 bytes) is
\* accepted: the request ends with a success response whose imageUrl is the
\* data:image/png;base64 encoding of those bytes.
C8_MinimalPngAccepted ==
    \A r \in Reqs :
        (Done(r) /\ fetched[r] = {FetchOk(MinimalPng)})
            => response[r] =
                 {[body |-> [imageUrl |-> [prefix |-> "data:image/png;base64,",
                                           data |-> [of |-> MinimalPng, length |-> 92]]],
                   status |-> 200]}

\* C9: createMask(W, H) yields a mask in which every pixel of every row y
\* with y < H * 0.7 is fully transparent and every pixel of every row y with
\* y >= H * 0.7 is fully opaque white; no row is partially covered.
C9_MaskBand ==
    \A m \in mask :
        \A x \in 0..(m.width - 1), y \in 0..(m.height - 1) :
            /\ 10 * y < 7 * m.height => m.alpha[<<x, y>>] = 0
            /\ 10 * y >= 7 * m.height => m.alpha[<<x, y>>] = 10
            /\ m.alpha[<<x, y>>] \in {0, 10}

\* C10: convertToSquarePNG crops a square of side min(w, h) with origin
\* ((w - side) / 2, (h - side) / 2) (coordinates doubled below), the crop lies
\* inside the source image with x = 0 or y = 0, and the output raster is
\* 1024 x 1024 whatever the aspect ratio.
C10_CenterCrop ==
    \A c \in square :
        LET w == c.srcWidth
            h == c.srcHeight
        IN /\ c.sw = c.sh
           /\ c.sw <= w /\ c.sw <= h /\ (c.sw = w \/ c.sw = h)
           /\ c.sx2 = w - c.sw /\ c.sy2 = h - c.sh
           /\ 0 <= c.sx2 /\ c.sx2 + 2 * c.sw <= 2 * w
           /\ 0 <= c.sy2 /\ c.sy2 + 2 * c.sh <= 2 * h
           /\ (c.sx2 = 0 \/ c.sy2 = 0)
           /\ c.width = 1024 /\ c.height = 1024
           /\ <<c.dx, c.dy, c.dw, c.dh>> = <<0, 0, 1024, 1024>>

C10_Witness ==
    \E c \in square :
        /\ c.srcWidth = 1 /\ c.srcHeight = 3
        /\ c.sw = 1 /\ c.sx2 = 0 /\ c.sy2 = 2 /\ c.width = 1024

PrimaryResponse(r) ==
    IF thrown[r] = {}
    THEN Json([imageUrl |-> DataUrl(Base64(Only(fetched[r]).payload))], OkStatus)
    ELSE MapError(Only(thrown[r]))

C12_CleanupFailureHarmless ==
    \A r \in Reqs : \A i \in DOMAIN cleanup[r] :
        LET c == cleanup[r][i]
        IN (Done(r) /\ c.failed)
              => /\ response[r] = {PrimaryResponse(r)}
                 /\ \A p \in c.existed : \E j \in DOMAIN c.unlinks : c.unlinks[j] = p

\* C13: from the moment a request invokes the edit call until that call
\* settles, both of its staged files exist and hold the bytes it wrote.
C13_StagedFilesIntact ==
    \A r \in Reqs :
        pc[r] \in {"streams", "edit"}
            => /\ Exists(fs, tempFilePath[r])
               /\ Exists(fs, maskFilePath[r])
               /\ fs[tempFilePath[r]] = Only(imageBuffer[r])
               /\ fs[maskFilePath[r]] = toBuffer(createMask(T, T))

\* C14: the steps of a request occur in the order Received, Normalized,
\* MaskBuilt, Staged, Submitted, ResultFetched, Respond, none skipped and no
\* back-edge: the edit call is made only with the normalized image at hand
\* and both files staged, the result is fetched only after the edit call
\* returned a result URL (no fetch after an empty result), and a success
\* response is given only for a fetched payload that passed validation.
Rank(p) ==
    CASE p = "idle" -> 0
      [] p = "json" -> 1
      [] p = "loadImage" -> 2
      [] p = "createMask" -> 3
      [] p = "streams" -> 4
      [] p = "edit" -> 5
      [] p = "fetch" -> 6
      [] p = "done" -> 7

C14_StateOrder ==
    \A r \in Reqs :
        /\ pc[r] \in {"createMask", "streams", "edit", "fetch"} => imageBuffer[r] # {}
        /\ calls[r].edit > 0 => imageBuffer[r] # {}
        /\ pc[r] \in {"edit", "fetch"} => sent[r] # {} /\ calls[r].edit > 0
        /\ (calls[r].fetch > 0 \/ fetched[r] # {})
              => \E o \in editResult[r] : o.settled = "resolved" /\ o.url # {}
        /\ EmptyEditResult(r) => calls[r].fetch = 0 /\ fetched[r] = {}
        /\ \A resp \in response[r] :
              IsSuccess(resp)
                 => /\ calls[r] = [edit |-> 1, fetch |-> 1]
                    /\ \E o \in fetched[r] :
                          /\ o.settled = "resolved" /\ o.ok
                          /\ EncodedLength(o.payload.len) >= MinBase64Len

C14_StepOrder ==
    /\ []C14_StateOrder
    /\ [][\A r \in Reqs :
            /\ pc'[r] # pc[r]
                  => \/ Rank(pc'[r]) = Rank(pc[r]) + 1
                     \/ pc'[r] = "done" /\ \A resp \in response'[r] : IsFailure(resp)
            /\ calls'[r].edit # calls[r].edit
                  => /\ pc[r] = "createMask"
                     /\ Exists(fs', tempFilePath[r]) /\ Exists(fs', maskFilePath[r])
            /\ calls'[r].fetch # calls[r].fetch => pc[r] = "edit"]_vars

C14_Witness ==
    \E r \in Reqs : \E resp \in response[r] :
        Done(r) /\ IsSuccess(resp) /\ calls[r] = [edit |-> 1, fetch |-> 1]

\* C15 as stated: while a request retrieves and validates the result, its
\* staged room-image and mask files no longer exist.
C15_ReleasedAfterEdit ==
    \A r \in Reqs :
        pc[r] = "fetch" => /\ ~Exists(fs, tempFilePath[r])
                           /\ ~Exists(fs, maskFilePath[r])

\* C15 amended: a request does not destroy its staged artifacts when the edit
\* call resolves; it releases them only in its finally block when it ends.
\* While it retrieves and validates the result its release has not run, and
\* the step that takes it there leaves the backing store as it is.
C15_ReleasedAtEnd ==
    /\ [](\A r \in Reqs : pc[r] = "fetch" => cleanup[r] = <<>>)
    /\ [][\A r \in Reqs : (pc[r] = "edit" /\ pc'[r] = "fetch") => fs' = fs]_vars

C15_Witness ==
    \E r \in Reqs :
        /\ pc[r] = "fetch" /\ cleanup[r] = <<>>
        /\ Exists(fs, tempFilePath[r]) /\ Exists(fs, maskFilePath[r])

\* C16: within one request the edit service is invoked at most once and the
\* result is fetched at most once; after a failure of the edit call or of the
\* fetch the request fails without invoking either again.
EditFailed(r) ==
    \E o \in editResult[r] : o.settled = "rejected" \/ o.url = {}
FetchFailed(r) == fetched[r] # {} /\ thrown[r] # {}

C16_NoRetry ==
    \A r \in Reqs :
        /\ calls[r].edit <= 1 /\ calls[r].fetch <= 1
        /\ calls[r].fetch <= calls[r].edit
        /\ (Done(r) /\ EditFailed(r))
              => /\ calls[r] = [edit |-> 1, fetch |-> 0]
                 /\ \A resp \in response[r] : IsFailure(resp)
        /\ (Done(r) /\ FetchFailed(r))
              => /\ calls[r] = [edit |-> 1, fetch |-> 1]
                 /\ \A resp \in response[r] : IsFailure(resp)
        /\ EditFailed(r) \/ FetchFailed(r) => Done(r)

C16_Witness ==
    \E r \in Reqs : \E o \in editResult[r] :
        /\ Done(r) /\ o.settled = "rejected"
        /\ calls[r] = [edit |-> 1, fetch |-> 0]

\* C17: release is a no-op, not an error, for an artifact that does not
\* exist: the finally block unlinks only files that exist; when neither file
\* exists it unlinks nothing and does not fail; and a request that fails
\* before the edit call (nothing staged, or only the image file) answers with
\* its primary failure.
C17_ReleaseNoOp ==
    \A r \in Reqs : \A i \in DOMAIN cleanup[r] :
        LET c == cleanup[r][i]
        IN /\ \A j \in DOMAIN c.unlinks : c.unlinks[j] \in c.existed
           /\ c.existed = {} => c.unlinks = <<>> /\ ~c.failed
           /\ (Done(r) /\ calls[r].edit = 0)
                 => /\ thrown[r] # {}
                    /\ \A e \in thrown[r] :
                          response[r] = {[body |-> [error |-> e.message], status |-> 500]}

C17_Witness ==
    \E r \in Reqs :
        /\ Done(r) /\ thrown[r] = {WriteError} /\ Len(cleanup[r]) = 1
        /\ cleanup[r][1].existed = {tempFilePath[r]}
        /\ cleanup[r][1].unlinks = <<tempFilePath[r]>>
        /\ ~cleanup[r][1].failed
        /\ ~Exists(fs, maskFilePath[r])

C17_WitnessNothingStaged ==
    \E r \in Reqs :
        /\ Done(r) /\ thrown[r] = {DecodeError}
        /\ cleanup[r] = <<[failed |-> FALSE, unlinks |-> <<>>,
                           checks |-> <<tempFilePath[r], maskFilePath[r]>>,
                           existed |-> {}]>>

\* C18: a request that fails before the staging step changes nothing on the
\* backing store at any point of its execution, and neither the edit service
\* nor the result fetch is invoked for it.
C18_NoEffectBeforeStaging ==
    [][\A r \in Reqs :
         (pc[r] \in {"json", "loadImage"} /\ pc'[r] # pc[r])
             => /\ fs' = fs
                /\ calls'[r] = [edit |-> 0, fetch |-> 0]]_vars

\* C19: every addPlants call that sets isGenerating to true sets it back to
\* false, whether the fetch fails, response.json() fails, the response is a
\* failure or it is a success; generatedImage changes only to null when a
\* file is accepted for upload, or to the imageUrl of a response that is OK,
\* is JSON and carries no error field; and the step that ends a failed call
\* leaves generatedImage as it was.
Accepted(resp) == resp.parses /\ Ok(resp.status) /\ "error" \notin DOMAIN resp.body

C19_ClientGeneration ==
    /\ [](isGenerating <=> addPlantsPc # "idle")
    /\ isGenerating ~> ~isGenerating
    /\ [][/\ generatedImage' # generatedImage
              => \/ /\ generatedImage' = {}
                    /\ UNCHANGED <<isGenerating, addPlantsPc, httpResponse>>
                 \/ /\ addPlantsPc = "json" /\ addPlantsPc' = "idle"
                    /\ \E resp \in httpResponse :
                          /\ Accepted(resp)
                          /\ generatedImage' = {ImageUrlOf(resp.body)}
          /\ (addPlantsPc = "fetch" /\ addPlantsPc' = "idle")
              => generatedImage' = generatedImage /\ ~isGenerating'
          /\ (addPlantsPc = "json" /\ addPlantsPc' = "idle"
                 /\ \E resp \in httpResponse : ~Accepted(resp))
              => generatedImage' = generatedImage /\ ~isGenerating']_vars

C19_Witness ==
    /\ ~isGenerating /\ addPlantsPc = "idle"
    /\ \E resp \in httpResponse : resp.status = BillingStatus
    /\ toast = {BillingMessage}
    /\ \E url \in generatedImage : url # Undefined

====
